---- MODULE Spec2Model ----
(***************************************************************************)
(* A model of package inspect (github.com/jcdotter/go): the package        *)
(* loader (Inspect, Package.Parse), the declaration inspector              *)
(* (File.Inspect, InspectImports, InspectValues, InspectType, InspectFunc) *)
(* and the expression type evaluator (TypeExpr and its cases, GetType,     *)
(* TypeIdent, typePointer); and of package api: FromMap, Api.ResourceMap    *)
(* and NewResource.                                                        *)
(*                                                                         *)
(* Every Go method is an operator that takes the program state as a record *)
(* (the "world" w) and returns the new world together with the method's    *)
(* results.  A Go panic is the world field st = "panic", a stack overflow  *)
(* of the mutual recursion is st = "overflow"; once st is not "ok" every   *)
(* operator returns the world unchanged, which is how a panic unwinds.     *)
(***************************************************************************)
EXTENDS Integers, Sequences, FiniteSets, TLC

\* ------------------------------------------------------------------ bounds

\* the nesting depth of on-demand inspection (TypeIdent -> InspectValue) at
\* which the Go stack is taken to have overflowed
MaxDepth == 4
\* the number of calls a client makes on the inspected packages in one run
MaxCalls == 3
\* the number of pointer Types each concurrent evaluator asks for
MaxRequests == 2

\* ------------------------------------------------------------ strings

RECURSIVE LastIndexFrom(_, _, _)
LastIndexFrom(str, ch, i) ==
    IF i = 0 THEN -1
    ELSE IF SubSeq(str, i, i) = ch THEN i - 1
    ELSE LastIndexFrom(str, ch, i - 1)

\* strings.LastIndex(str, ch) for a one-character ch: 0-based, -1 if absent
LastIndex(str, ch) == LastIndexFrom(str, ch, Len(str))

RECURSIVE IndexFrom(_, _, _)
IndexFrom(str, ch, i) ==
    IF i > Len(str) THEN -1
    ELSE IF SubSeq(str, i, i) = ch THEN i - 1
    ELSE IndexFrom(str, ch, i + 1)

\* strings.Split(str, ch) for a one-character ch
RECURSIVE Split(_, _)
Split(str, ch) ==
    LET i == IndexFrom(str, ch, 1)
    IN  IF i = -1 THEN <<str>>
        ELSE <<SubSeq(str, 1, i)>> \o Split(SubSeq(str, i + 2, Len(str)), ch)

\* ------------------------------------------------------- syntax trees

\* go/ast nodes, as records tagged by k.  An identifier's Obj is its kind
\* and the number of the ValueSpec that declares it (ObjDecl below); NoObj
\* is Obj == nil.
NoObj == [kind |-> "nil", decl |-> 0]
NoExpr == [k |-> "nil"]
Lit(tok) == [k |-> "BasicLit", tok |-> tok]
Id(n) == [k |-> "Ident", name |-> n, obj |-> NoObj]
IdO(n, kind, decl) == [k |-> "Ident", name |-> n, obj |-> [kind |-> kind, decl |-> decl]]
Paren(x) == [k |-> "ParenExpr", x |-> x]
Star(x) == [k |-> "StarExpr", x |-> x]
Unary(op, x) == [k |-> "UnaryExpr", op |-> op, x |-> x]
Binary(x, y) == [k |-> "BinaryExpr", x |-> x, y |-> y]
Call(fun) == [k |-> "CallExpr", fun |-> fun]
Field(names, type) == [names |-> names, type |-> type]
FuncLit(params, results) == [k |-> "FuncLit", params |-> params, results |-> results]
Composite(type) == [k |-> "CompositeLit", type |-> type]
Selector(x, sel) == [k |-> "SelectorExpr", x |-> x, sel |-> sel]
\* len is "nil" for []T, "..." for [...]T, else the text of the length literal
ArrayType(len, elt) == [k |-> "ArrayType", len |-> len, elt |-> elt]
MapType(key, value) == [k |-> "MapType", key |-> key, value |-> value]
StructType == [k |-> "StructType"]

ValueSpec(names, type, values) == [names |-> names, type |-> type, values |-> values]
ImportSpec(name, path) == [named |-> TRUE, name |-> name, path |-> path]
\* an import written without an alias: ImportSpec.Name == nil
ImportBare(path) == [named |-> FALSE, name |-> "", path |-> path]
GenDecl(tok, specs) == [tok |-> tok, specs |-> specs]
\* a function declaration: its name and the types of its results
FuncDecl(name, results) == [tok |-> "FUNC", specs |-> <<[name |-> name, results |-> results]>>]
TypeSpec(name) == [name |-> name]

\* ------------------------------------------------------- the file system

\* path.Files(p.Path): the files of the directory, in order.  Import paths
\* reach NewPackage as written in the import spec (ImportSpec.Path.Value,
\* the literal with its quotes), so a package made for an import is looked
\* up under the quoted name.
FSFiles(path) ==
    CASE path = "A" -> <<"A/a1.go", "A/a2.go">>
      [] path = "B" -> <<"B/b1.go">>
      [] path = "C" -> <<"C/ok.go", "C/bad.go", "C/late.go">>
      [] path = "\"D\"" -> <<"\"D\"/d1.go", "\"D\"/d2.go">>
      [] path = "E" -> <<"E/e1.go">>
      [] path = "F" -> <<"F/f1.go">>
      [] path = "\"G\"" -> <<"\"G\"/g1.go">>
      [] OTHER -> <<>>

\* the paths Inspect is called with
RootPaths == {"A", "B", "C", "E", "F"}
\* every path a Package is ever made for
PkgPaths == RootPaths \cup {"\"A\"", "\"B\"", "\"D\"", "\"G\"", "\"fmt\""}

\* the files parser.ParseFile rejects
BadFiles == {"C/bad.go", "\"G\"/g1.go"}

\* the declarations of each file as parser.ParseFile returns them under
\* parser.SkipObjectResolution: no identifier has an Obj
TreeDecls(file) ==
    CASE file = "A/a1.go" -> <<
            GenDecl("IMPORT", <<ImportSpec("b", "\"B\""), ImportSpec("d", "\"D\""),
                                ImportSpec("g", "\"G\"")>>),
            GenDecl("TYPE", <<TypeSpec("TA")>>),
            GenDecl("VAR", <<ValueSpec(<<"x">>, Id("float64"), <<Lit("FLOAT")>>)>>),
            GenDecl("VAR", <<ValueSpec(<<"y">>, NoExpr, <<Binary(Id("x"), Lit("INT"))>>)>>),
            GenDecl("CONST", <<ValueSpec(<<"K">>, Id("string"), <<Lit("STRING")>>),
                               ValueSpec(<<"L">>, NoExpr, <<Lit("INT")>>),
                               ValueSpec(<<"M">>, NoExpr, <<>>)>>) >>
      [] file = "A/a2.go" -> <<
            GenDecl("IMPORT", <<ImportSpec("b", "\"B\"")>>),
            FuncDecl("f", <<Id("int"), Id("string")>>),
            GenDecl("VAR", <<ValueSpec(<<"a", "b">>, NoExpr, <<Call(Id("f"))>>)>>),
            GenDecl("VAR", <<ValueSpec(<<"q">>, Star(Id("int")), <<>>),
                             ValueSpec(<<"r">>, Star(Id("int")), <<>>)>>) >>
      [] file = "B/b1.go" -> <<
            GenDecl("IMPORT", <<ImportSpec("a", "\"A\"")>>),
            GenDecl("TYPE", <<TypeSpec("TB")>>),
            GenDecl("VAR", <<ValueSpec(<<"v">>, NoExpr, <<Binary(Lit("INT"), Lit("FLOAT"))>>)>>),
            GenDecl("VAR", <<ValueSpec(<<"s">>, NoExpr,
                                       <<Composite(ArrayType("nil", Id("int")))>>)>>) >>
      [] file = "C/ok.go" -> << GenDecl("VAR", <<ValueSpec(<<"c">>, Id("int"), <<>>)>>) >>
      [] file = "C/late.go" -> << GenDecl("VAR", <<ValueSpec(<<"z">>, Id("int"), <<>>)>>) >>
      [] file = "\"D\"/d1.go" -> << GenDecl("TYPE", <<TypeSpec("Foo")>>) >>
      [] file = "\"D\"/d2.go" -> << GenDecl("TYPE", <<TypeSpec("Bar")>>) >>
      [] file = "E/e1.go" -> << GenDecl("IMPORT", <<ImportBare("\"fmt\"")>>) >>
      [] file = "F/f1.go" -> <<
            GenDecl("VAR", <<ValueSpec(<<"x">>, Id("int"), <<>>)>>),
            GenDecl("VAR", <<ValueSpec(<<"p">>, NoExpr, <<Unary("&", Id("x"))>>)>>) >>
      [] OTHER -> <<>>

\* the package clause of each file (File.t.Name.Name)
TreeName(file) ==
    CASE file \in {"A/a1.go", "A/a2.go"} -> "a"
      [] file = "B/b1.go" -> "b"
      [] file \in {"\"D\"/d1.go", "\"D\"/d2.go"} -> "d"
      [] OTHER -> "main"

\* the type names a file declares
RECURSIVE DeclaredTypesFrom(_, _)
DeclaredTypesFrom(decls, i) ==
    IF i > Len(decls) THEN {}
    ELSE (IF decls[i].tok = "TYPE"
          THEN {decls[i].specs[j].name : j \in 1..Len(decls[i].specs)}
          ELSE {}) \cup DeclaredTypesFrom(decls, i + 1)

DeclaredTypes(file) == DeclaredTypesFrom(TreeDecls(file), 1)

\* the ValueSpecs that identifiers with an Obj are bound to (Obj.Decl), for
\* syntax trees that a caller resolved itself and hands to InspectValues or
\* TypeExpr
ObjDecl(n) ==
    CASE n = 1 -> ValueSpec(<<"x">>, Id("float64"), <<Lit("FLOAT")>>)
      [] n = 2 -> ValueSpec(<<"g">>, Id("string"), <<Lit("STRING")>>)
      [] n = 3 -> ValueSpec(<<"h">>, NoExpr, <<Lit("INT")>>)
      [] n = 4 -> ValueSpec(<<"w">>, NoExpr, <<Binary(IdO("x", "Var", 1), Lit("INT"))>>)
      \* var y = x + 1 of A/a1.go, with x resolved
      [] n = 5 -> ValueSpec(<<"y">>, NoExpr, <<Binary(IdO("x", "Var", 1), Lit("INT"))>>)
      \* const ca = ca
      [] n = 6 -> ValueSpec(<<"ca">>, NoExpr, <<IdO("ca", "Con", 6)>>)
      \* var va = vb; var vb = va
      [] n = 7 -> ValueSpec(<<"va">>, NoExpr, <<IdO("vb", "Var", 8)>>)
      [] n = 8 -> ValueSpec(<<"vb">>, NoExpr, <<IdO("va", "Var", 7)>>)
      \* var fa, fb = fa()
      [] n = 9 -> ValueSpec(<<"fa", "fb">>, NoExpr, <<Call(IdO("fa", "Var", 9))>>)
      \* var ra, rb = rb + 1, 2
      [] n = 10 -> ValueSpec(<<"ra", "rb">>, NoExpr,
                             <<Binary(IdO("rb", "Var", 10), Lit("INT")), Lit("INT")>>)
      \* const ( P int = iota; Q; R )
      [] n = 11 -> ValueSpec(<<"P">>, Id("int"), <<Id("iota")>>)
      [] n = 12 -> ValueSpec(<<"Q">>, NoExpr, <<>>)
      [] n = 13 -> ValueSpec(<<"R">>, NoExpr, <<>>)
      [] OTHER -> ValueSpec(<<>>, NoExpr, <<>>)

\* ---------------------------------------------------------------- state

VARIABLES
    heap,       \* every Type instance: a *Type is its index here, 0 is nil
    vheap,      \* every Value instance, likewise
    pkgs,       \* the registry of Packages, by path
    Name,       \* Package.Name
    insp,       \* Package.i
    Files,      \* Package.Files: of each package, the file names in order
    Types,      \* Package.Types: of each package, the *Type in order
    Values,     \* Package.Values: of each package, the *Value in order
    Funcs,      \* Package.Funcs: of each package, the function names in order
    Imports,    \* Package.Imports: of each package, the imported paths in order
    fileT,      \* File.t of each file: the file parsed, "" for nil
    fileI,      \* File.i of each file: the Imports in order
    parses,     \* how often parser.ParseFile was called on each file
    ptrLog,     \* the calls of typePointer so far, in order: the file, the
                \* operand, the result and whether the call made the result
    st,         \* "ok", or how the process died: "panic", "overflow"
    calls,      \* the number of calls made so far
    ev,         \* of each concurrent evaluator: where it is in typePointer
                \* (pc), the file and Type it called it with, the Type it
                \* found or made, and the number of its calls so far
    ret,        \* the last call and what it returned
    urls,       \* package api: every url.URL instance, a *url.URL is its
                \* index here
    apis,       \* every Api instance: an *Api is its index here, 0 is nil
    resources   \* every Resource instance, likewise

vars == <<heap, vheap, pkgs, Name, insp, Files, Types, Values, Funcs, Imports,
          fileT, fileI, parses, ptrLog, st, calls, ev, ret, urls, apis, resources>>

\* the state of package api
apiVars == <<urls, apis, resources>>

\* the state of the packages, as opposed to the state of their callers
worldVars == <<heap, vheap, pkgs, Name, insp, Files, Types, Values, Funcs, Imports,
               fileT, fileI, parses, ptrLog, st>>

\* the goroutines that evaluate expressions at the same time
Evaluators == {1, 2}

NilT == 0

\* a file is its package's path and its name in Package.Files
FileRef(p, n) == <<p, n>>
NoFile == <<>>

\* Parse's file name: f[strings.LastIndex(f, "/")+1 : strings.LastIndex(f, ".")]
FileName(f) == SubSeq(f, LastIndex(f, "/") + 2, LastIndex(f, "."))

AllFiles == UNION {{FSFiles(p)[i] : i \in 1..Len(FSFiles(p))} : p \in PkgPaths}
FileRefs == UNION {{FileRef(p, FileName(FSFiles(p)[i])) : i \in 1..Len(FSFiles(p))} : p \in PkgPaths}

\* BuiltinTypes, in the first places of the heap
BuiltinNames == <<"int", "float64", "string", "rune", "bool">>

BuiltinType(n) ==
    [name |-> n, kind |-> "BASIC", file |-> NoFile, elem |-> NilT, key |-> NilT,
     self |-> NilT, len |-> 0, ins |-> <<>>, outs |-> <<>>]

\* BuiltinTypes.Get(name)
BuiltinTypesGet(name) ==
    IF \E i \in 1..Len(BuiltinNames) : BuiltinNames[i] = name
    THEN CHOOSE i \in 1..Len(BuiltinNames) : BuiltinNames[i] = name
    ELSE NilT

\* BuiltinValues.Get(name).typ, NilT - 1 when name is no builtin value
NoValue == 0 - 1
BuiltinValuesGet(name) ==
    IF name \in {"true", "false"} THEN BuiltinTypesGet("bool") ELSE NoValue

\* TypeToken(kind): the builtin Type of a literal's kind
TypeToken(tok) ==
    CASE tok = "INT" -> BuiltinTypesGet("int")
      [] tok = "FLOAT" -> BuiltinTypesGet("float64")
      [] tok = "STRING" -> BuiltinTypesGet("string")
      [] tok = "CHAR" -> BuiltinTypesGet("rune")
      [] OTHER -> NilT

Init ==
    /\ heap = [i \in 1..Len(BuiltinNames) |-> BuiltinType(BuiltinNames[i])]
    /\ vheap = <<>>
    /\ pkgs = {}
    /\ Name = [p \in PkgPaths |-> ""]
    /\ insp = [p \in PkgPaths |-> FALSE]
    /\ Files = [p \in PkgPaths |-> <<>>]
    /\ Types = [p \in PkgPaths |-> <<>>]
    /\ Values = [p \in PkgPaths |-> <<>>]
    /\ Funcs = [p \in PkgPaths |-> <<>>]
    /\ Imports = [p \in PkgPaths |-> <<>>]
    /\ fileT = [f \in FileRefs |-> ""]
    /\ fileI = [f \in FileRefs |-> <<>>]
    /\ parses = [f \in AllFiles |-> 0]
    /\ ptrLog = <<>>
    /\ st = "ok"
    /\ calls = 0
    /\ ev = [e \in Evaluators |-> [pc |-> "idle", file |-> NoFile, t |-> NilT,
                                    typ |-> NilT, n |-> 0]]
    /\ ret = [op |-> "none"]
    /\ urls = <<>>
    /\ apis = <<>>
    /\ resources = <<>>

\* the program state as one record, as the operators below take and return it
World ==
    [heap |-> heap, vheap |-> vheap, pkgs |-> pkgs, Name |-> Name, insp |-> insp,
     Files |-> Files, Types |-> Types, Values |-> Values, Funcs |-> Funcs,
     Imports |-> Imports, fileT |-> fileT, fileI |-> fileI, parses |-> parses,
     ptrLog |-> ptrLog, st |-> st]

Panic(w) == [w EXCEPT !.st = "panic"]
Overflow(w) == [w EXCEPT !.st = "overflow"]

\* ------------------------------------------------------------ data.Data

\* Data.Get(key) on a list whose elements have the keys `keys`: the place of
\* the element, 0 when there is none
DataIndex(keys, key) ==
    IF \E i \in 1..Len(keys) : keys[i] = key
    THEN CHOOSE i \in 1..Len(keys) : keys[i] = key /\ \A j \in 1..(i - 1) : keys[j] # key
    ELSE 0

\* Data.Add(e): keys are unique and insertion order is kept, so an element
\* whose key is present takes the place of the one that was there
DataAdd(list, keys, e, key) ==
    IF DataIndex(keys, key) = 0 THEN Append(list, e)
    ELSE [list EXCEPT ![DataIndex(keys, key)] = e]

TypeKeys(w, p) == [i \in 1..Len(w.Types[p]) |-> w.heap[w.Types[p][i]].name]
ValueKeys(w, p) == [i \in 1..Len(w.Values[p]) |-> w.vheap[w.Values[p][i]].name]
ImportKeys(w, f) == [i \in 1..Len(w.fileI[f]) |-> w.fileI[f][i].name]

\* p.Types.Get(name), as a *Type
TypesGet(w, p, name) ==
    IF DataIndex(TypeKeys(w, p), name) = 0 THEN NilT
    ELSE w.Types[p][DataIndex(TypeKeys(w, p), name)]

\* p.Values.Get(name), as a *Value
ValuesGet(w, p, name) ==
    IF DataIndex(ValueKeys(w, p), name) = 0 THEN 0
    ELSE w.Values[p][DataIndex(ValueKeys(w, p), name)]

\* p.Funcs.Get(name): TRUE when there is such a Func
FuncsGet(w, p, name) == DataIndex(w.Funcs[p], name) # 0

\* ------------------------------------------------------- package loader

\* what a method returns: the world after it, its *Type and its error
\* ("nil" for no error)
Res(w, t) == [w |-> w, t |-> t, err |-> "nil"]
Err(w, err) == [w |-> w, t |-> NilT, err |-> err]

\* NewPackage(path): the Package of the path, made on first use
NewPackage(w, path) == [w EXCEPT !.pkgs = @ \cup {path}]

\* NewFile(p, n) and p.Files.Add(file)
NewFile(w, p, n) == [w EXCEPT !.Files[p] = DataAdd(@, @, n, n)]

\* file.t, err = parser.ParseFile(f): a rejected file leaves its partial tree
ParseFile(w, p, n, f) == [w EXCEPT !.parses[f] = @ + 1, !.fileT[FileRef(p, n)] = f]

\* p.Name = p.Files.Index(0).(*File).t.Name.Name
ParseName(w, p) ==
    IF Len(w.Files[p]) > 0
    THEN [w EXCEPT !.Name[p] = TreeName(w.fileT[FileRef(p, w.Files[p][1])])]
    ELSE w

\* Package.Parse, from the i-th file of path.Files(p.Path) on; the error is
\* "nil" or "ParseError"
RECURSIVE ParseFrom(_, _, _)
ParseFrom(w, p, i) ==
    IF i > Len(FSFiles(p)) THEN Err(ParseName(w, p), "nil")
    ELSE IF DataIndex(w.Files[p], FileName(FSFiles(p)[i])) # 0 THEN Err(w, "nil")
    ELSE IF FSFiles(p)[i] \in BadFiles
    THEN Err(ParseFile(NewFile(w, p, FileName(FSFiles(p)[i])), p,
                       FileName(FSFiles(p)[i]), FSFiles(p)[i]), "ParseError")
    ELSE ParseFrom(ParseFile(NewFile(w, p, FileName(FSFiles(p)[i])), p,
                             FileName(FSFiles(p)[i]), FSFiles(p)[i]), p, i + 1)

Parse(w, p) == ParseFrom(w, p, 1)

\* ------------------------------------------------------ type evaluation

RECURSIVE TypeExpr(_, _, _, _)
RECURSIVE TypeIdent(_, _, _, _)
RECURSIVE TypeFuncParams(_, _, _, _, _, _)
RECURSIVE InspectSpecs(_, _, _, _, _, _, _)
RECURSIVE InspectNames(_, _, _, _, _, _, _, _, _)

NewType(name, kind, file) ==
    [name |-> name, kind |-> kind, file |-> file, elem |-> NilT, key |-> NilT,
     self |-> NilT, len |-> 0, ins |-> <<>>, outs |-> <<>>]

LogPointer(w, f, t, typ, made) ==
    [w EXCEPT !.ptrLog = Append(@, [file |-> f, elem |-> t, typ |-> typ, made |-> made])]

\* typePointer without the lookup in p.Types: every call makes a Type
typePointerNoLookup(w, f, t) ==
    IF w.st # "ok" THEN Res(w, NilT)
    ELSE IF t = NilT THEN Res(Panic(w), NilT)
    ELSE Res(LogPointer(
                [w EXCEPT !.heap = Append(@, [NewType("*" \o w.heap[t].name, "POINTER",
                                                      w.heap[t].file)
                                                 EXCEPT !.elem = t, !.self = Len(w.heap) + 1]),
                          !.Types[f[1]] = Append(@, Len(w.heap) + 1)],
                f, t, Len(w.heap) + 1, TRUE),
             Len(w.heap) + 1)

\* File.typePointer(t): t.name panics on a nil t
typePointer(w, f, t) ==
    IF w.st # "ok" THEN Res(w, NilT)
    ELSE IF t = NilT THEN Res(Panic(w), NilT)
    ELSE IF TypesGet(w, f[1], "*" \o w.heap[t].name) # NilT
    THEN Res(LogPointer(w, f, t, TypesGet(w, f[1], "*" \o w.heap[t].name), FALSE),
             TypesGet(w, f[1], "*" \o w.heap[t].name))
    ELSE Res(LogPointer(
                [w EXCEPT !.heap = Append(@, [NewType("*" \o w.heap[t].name, "POINTER",
                                                      w.heap[t].file)
                                                 EXCEPT !.elem = t, !.self = Len(w.heap) + 1]),
                          !.Types[f[1]] = DataAdd(@, TypeKeys(w, f[1]), Len(w.heap) + 1,
                                                  "*" \o w.heap[t].name)],
                f, t, Len(w.heap) + 1, TRUE),
             Len(w.heap) + 1)

\* typePointer of the Type an evaluation returned
typePointerOf(r, f) == typePointer(r.w, f, r.t)

\* typePointer's first half on its own, for a non-nil t: the lookup
\* f.p.Types.Get("*" + t.name) and the return of what it finds
typePointerFind(w, f, t) ==
    IF TypesGet(w, f[1], "*" \o w.heap[t].name) # NilT
    THEN Res(LogPointer(w, f, t, TypesGet(w, f[1], "*" \o w.heap[t].name), FALSE),
             TypesGet(w, f[1], "*" \o w.heap[t].name))
    ELSE Res(w, NilT)

\* typePointer's second half on its own: typ = &Type{...} and
\* f.p.Types.Add(typ)
typePointerMake(w, f, t) ==
    Res(LogPointer(
            [w EXCEPT !.heap = Append(@, [NewType("*" \o w.heap[t].name, "POINTER",
                                                  w.heap[t].file)
                                             EXCEPT !.elem = t, !.self = Len(w.heap) + 1]),
                      !.Types[f[1]] = DataAdd(@, TypeKeys(w, f[1]), Len(w.heap) + 1,
                                              "*" \o w.heap[t].name)],
            f, t, Len(w.heap) + 1, TRUE),
        Len(w.heap) + 1)

\* GetType's end for an imported name, r being what the forced Parse returned
GetTypeParsed(r, pkg, n) ==
    IF r.err # "nil" THEN Err(r.w, r.err)
    ELSE IF TypesGet(r.w, pkg, n) # NilT THEN Res(r.w, TypesGet(r.w, pkg, n))
    ELSE Err(r.w, "ErrNotType")

\* GetTypeImported returning nil and no error for a prefix that is no import
GetTypeImportedNoError(w, f, parts) ==
    IF DataIndex(ImportKeys(w, f), parts[1]) = 0 THEN Res(w, NilT)
    ELSE IF TypesGet(w, w.fileI[f][DataIndex(ImportKeys(w, f), parts[1])].pkg, parts[2]) # NilT
    THEN Res(w, TypesGet(w, w.fileI[f][DataIndex(ImportKeys(w, f), parts[1])].pkg, parts[2]))
    ELSE GetTypeParsed(Parse(w, w.fileI[f][DataIndex(ImportKeys(w, f), parts[1])].pkg),
                       w.fileI[f][DataIndex(ImportKeys(w, f), parts[1])].pkg, parts[2])

\* GetType's case of a name with a period, parts being its split
GetTypeImported(w, f, parts) ==
    IF DataIndex(ImportKeys(w, f), parts[1]) = 0 THEN Err(w, "ErrNotType")
    ELSE IF TypesGet(w, w.fileI[f][DataIndex(ImportKeys(w, f), parts[1])].pkg, parts[2]) # NilT
    THEN Res(w, TypesGet(w, w.fileI[f][DataIndex(ImportKeys(w, f), parts[1])].pkg, parts[2]))
    ELSE GetTypeParsed(Parse(w, w.fileI[f][DataIndex(ImportKeys(w, f), parts[1])].pkg),
                       w.fileI[f][DataIndex(ImportKeys(w, f), parts[1])].pkg, parts[2])

\* File.GetType(name): the error is "nil", "ErrNotType" or Parse's
GetType(w, f, name) ==
    IF w.st # "ok" THEN Res(w, NilT)
    ELSE IF BuiltinTypesGet(name) # NilT THEN Res(w, BuiltinTypesGet(name))
    ELSE IF TypesGet(w, f[1], name) # NilT THEN Res(w, TypesGet(w, f[1], name))
    ELSE IF Len(Split(name, ".")) > 1 THEN GetTypeImported(w, f, Split(name, "."))
    ELSE Res(w, NilT)

\* File.InspectType(specs): registers nothing
InspectType(w, f, specs) == w

\* File.InspectFunc(fn): registers nothing
InspectFunc(w, f, fn) == w

\* File.InspectValues(k, specs) at nesting depth d
InspectValues(w, f, k, specs, d) ==
    IF w.st # "ok" THEN w
    ELSE IF d > MaxDepth THEN Overflow(w)
    ELSE InspectSpecs(w, f, k, specs, 1, NilT, d)

\* File.InspectValue(k, v)
InspectValue(w, f, k, v, d) == InspectValues(w, f, k, <<v>>, d)

\* AbsentNames without the check of p.Values: no name is skipped
AbsentNamesUnchecked(w, f, vals) == [j \in 1..Len(vals.names) |-> TRUE]

\* InspectValues' names of a spec: FALSE at the names already in p.Values
AbsentNames(w, f, vals) ==
    [j \in 1..Len(vals.names) |-> ValuesGet(w, f[1], vals.names[j]) = 0]

\* DeclaredType without the prior type: a spec with no type has none
DeclaredTypeNoPrior(w, f, vals, priorType, d) ==
    IF vals.type # NoExpr THEN TypeExpr(w, f, vals.type, d) ELSE Res(w, NilT)

\* InspectValues' typ of a spec
DeclaredType(w, f, vals, priorType, d) ==
    IF vals.type # NoExpr THEN TypeExpr(w, f, vals.type, d)
    ELSE IF priorType # NilT /\ Len(vals.values) = 0 THEN Res(w, priorType)
    ELSE Res(w, NilT)

\* InspectValues' types of a spec: the outputs of the one value when it is a
\* FUNC, in a list of num places; r is what evaluating the value returned
OutputTypes(r, num) ==
    IF r.w.st = "ok" /\ r.t # NilT /\ r.w.heap[r.t].kind = "FUNC"
    THEN [j \in 1..num |-> IF j <= Len(r.w.heap[r.t].outs) THEN r.w.heap[r.t].outs[j] ELSE NilT]
    ELSE [j \in 1..num |-> NilT]

\* types[i] = t panics when the FUNC has more outputs than places
OutputWorld(r, num) ==
    IF r.w.st = "ok" /\ r.t # NilT /\ r.w.heap[r.t].kind = "FUNC"
       /\ Len(r.w.heap[r.t].outs) > num
    THEN Panic(r.w) ELSE r.w

\* InspectValues on one spec once the value of a call is evaluated (r)
InspectSpecCall(r, typ, f, k, specs, i, prior, names, num, d) ==
    InspectSpecs(InspectNames(OutputWorld(r, num), f, k, specs[i], names, typ,
                              OutputTypes(r, num), 1, d),
                 f, k, specs, i + 1, prior, d)

\* InspectValues on one spec once its declared type is evaluated (r)
InspectSpecTyped(r, f, k, specs, i, priorType, names, num, d) ==
    IF r.t = NilT /\ num > 1 /\ Len(specs[i].values) = 1
    THEN InspectSpecCall(TypeExpr(r.w, f, specs[i].values[1], d), r.t, f, k, specs, i,
                         IF specs[i].type # NoExpr THEN r.t ELSE priorType, names, num, d)
    ELSE InspectSpecs(InspectNames(r.w, f, k, specs[i], names, r.t, <<>>, 1, d),
                      f, k, specs, i + 1,
                      IF specs[i].type # NoExpr THEN r.t ELSE priorType, d)

\* the loop of InspectValues over the specs, from the i-th on
InspectSpecs(w, f, k, specs, i, priorType, d) ==
    IF w.st # "ok" \/ i > Len(specs) THEN w
    ELSE IF \A j \in 1..Len(specs[i].names) : ~AbsentNames(w, f, specs[i])[j]
    THEN InspectSpecs(w, f, k, specs, i + 1, priorType, d)
    ELSE InspectSpecTyped(DeclaredType(w, f, specs[i], priorType, d), f, k, specs, i,
                          priorType, AbsentNames(w, f, specs[i]),
                          Cardinality({j \in 1..Len(specs[i].names) :
                                          AbsentNames(w, f, specs[i])[j]}), d)

\* val := &Value{file: f, kind: k, name: n.Name} and f.p.Values.Add(val)
AddValue(w, f, k, name) ==
    [w EXCEPT !.vheap = Append(@, [file |-> f, kind |-> k, name |-> name, typ |-> NilT]),
              !.Values[f[1]] = DataAdd(@, ValueKeys(w, f[1]), Len(w.vheap) + 1, name)]

\* the switch that finds val.typ, in the world with val added
ValueType(w, f, vals, typ, types, i, d) ==
    IF typ # NilT THEN Res(w, typ)
    ELSE IF Len(types) >= i THEN Res(w, types[i])
    ELSE IF Len(vals.values) >= i THEN TypeExpr(w, f, vals.values[i], d)
    ELSE Res(w, NilT)

\* val.typ = the Type found (r), val being the id-th Value
SetValueType(r, id) ==
    IF r.w.st = "ok" THEN [r.w EXCEPT !.vheap[id].typ = r.t] ELSE r.w

\* the loop of InspectValues over the names of one spec, from the i-th on
InspectNames(w, f, k, vals, names, typ, types, i, d) ==
    IF w.st # "ok" \/ i > Len(names) THEN w
    ELSE IF ~names[i] THEN InspectNames(w, f, k, vals, names, typ, types, i + 1, d)
    ELSE InspectNames(SetValueType(ValueType(AddValue(w, f, k, vals.names[i]), f, vals,
                                             typ, types, i, d),
                                   Len(w.vheap) + 1),
                      f, k, vals, names, typ, types, i + 1, d)

\* TypeIdent's return f.p.Values.Get(i.Name).(*Value).typ after InspectValue
TypeIdentValue(w, f, name) ==
    IF w.st # "ok" THEN Res(w, NilT)
    ELSE IF ValuesGet(w, f[1], name) = 0 THEN Res(Panic(w), NilT)
    ELSE Res(w, w.vheap[ValuesGet(w, f[1], name)].typ)

\* TypeIdent's return f.p.Types.Get(i.Name).(*Type) after InspectType
TypeIdentType(w, f, name) ==
    IF TypesGet(w, f[1], name) = NilT THEN Res(Panic(w), NilT)
    ELSE Res(w, TypesGet(w, f[1], name))

\* TypeIdent's return f.p.Funcs.Get(i.Name).(*Func).typ after InspectFunc:
\* no Func has a Type to return, since nothing adds to p.Funcs
TypeIdentFunc(w, f, name) == Res(Panic(w), NilT)

\* TypeIdent after GetType returned g
TypeIdentObj(g, f, i, d) ==
    IF g.t # NilT THEN Res(g.w, g.t)
    ELSE IF i.obj.kind = "Var"
    THEN TypeIdentValue(InspectValue(g.w, f, "VAR", ObjDecl(i.obj.decl), d + 1), f, i.name)
    ELSE IF i.obj.kind = "Con"
    THEN TypeIdentValue(InspectValue(g.w, f, "CONST", ObjDecl(i.obj.decl), d + 1), f, i.name)
    ELSE IF i.obj.kind = "Typ"
    THEN TypeIdentType(InspectType(g.w, f, <<TypeSpec(i.name)>>), f, i.name)
    ELSE IF i.obj.kind = "Fun"
    THEN TypeIdentFunc(InspectFunc(g.w, f, FuncDecl(i.name, <<>>)), f, i.name)
    ELSE Res(g.w, NilT)

\* File.TypeIdent(i)
TypeIdent(w, f, i, d) ==
    IF w.st # "ok" THEN Res(w, NilT)
    ELSE IF BuiltinValuesGet(i.name) # NoValue THEN Res(w, BuiltinValuesGet(i.name))
    ELSE TypeIdentObj(GetType(w, f, i.name), f, i, d)

\* File.TypePointer(p)
TypePointer(w, f, e, d) == typePointerOf(TypeExpr(w, f, e.x, d), f)

\* File.TypeUnary(u)
TypeUnary(w, f, e, d) ==
    IF e.op = "&" THEN typePointerOf(TypeExpr(w, f, e.x, d), f) ELSE Res(w, NilT)

\* File.TypeBinary(b)
TypeBinary(w, f, e, d) ==
    IF (IF e.x.k = "ParenExpr" THEN e.x.x ELSE e.x).k # "BasicLit"
    THEN TypeExpr(w, f, IF e.x.k = "ParenExpr" THEN e.x.x ELSE e.x, d)
    ELSE TypeExpr(w, f, e.y, d)

\* File.TypeCall(c)
TypeCall(w, f, e, d) == TypeExpr(w, f, e.fun, d)

\* to.Add(t) for every name of a field, t being the field's Type (r.t)
TypeFuncField(r, f, from, to, i, d) ==
    TypeFuncParams(r.w, f, from, to \o [j \in 1..Len(from[i].names) |-> r.t], i + 1, d)

\* File.TypeFuncParams(from, to), from the i-th field on: the world, and the
\* list `to` in the place of the Type
TypeFuncParams(w, f, from, to, i, d) ==
    IF w.st # "ok" \/ i > Len(from) THEN Res(w, to)
    ELSE TypeFuncField(TypeExpr(w, f, from[i].type, d), f, from, to, i, d)

\* TypeFunc's Type, ins and rout being what TypeFuncParams made of the
\* parameters and of the results (fnc.in and fnc.out taken as lists that
\* keep every Type added, in order)
TypeFuncOf(ins, rout, f) ==
    IF rout.w.st # "ok" THEN Res(rout.w, NilT)
    ELSE Res([rout.w EXCEPT !.heap = Append(@, [NewType("", "FUNC", f)
                                                   EXCEPT !.self = Len(rout.w.heap) + 1,
                                                          !.ins = ins, !.outs = rout.t])],
             Len(rout.w.heap) + 1)

TypeFuncResults(rin, f, e, d) ==
    TypeFuncOf(rin.t, TypeFuncParams(rin.w, f, e.results, <<>>, 1, d), f)

\* File.TypeFunc(fn)
TypeFunc(w, f, e, d) == TypeFuncResults(TypeFuncParams(w, f, e.params, <<>>, 1, d), f, e, d)

\* strconv.Atoi of a length literal: 0 (and an error) unless decimal digits
Digit(c) ==
    CASE c = "0" -> 0 [] c = "1" -> 1 [] c = "2" -> 2 [] c = "3" -> 3 [] c = "4" -> 4
      [] c = "5" -> 5 [] c = "6" -> 6 [] c = "7" -> 7 [] c = "8" -> 8 [] c = "9" -> 9
      [] OTHER -> 0 - 1

RECURSIVE AtoiFrom(_, _, _)
AtoiFrom(l, i, acc) ==
    IF i > Len(l) THEN acc
    ELSE IF Digit(SubSeq(l, i, i)) < 0 THEN 0
    ELSE AtoiFrom(l, i + 1, acc * 10 + Digit(SubSeq(l, i, i)))

Atoi(l) == IF Len(l) = 0 THEN 0 ELSE AtoiFrom(l, 1, 0)

\* TypeArray's Type, r being what evaluating the element returned:
\* arr.elem.name panics on a nil element Type
TypeArrayOf(r, f, a) ==
    IF r.w.st # "ok" THEN Res(r.w, NilT)
    ELSE IF r.t = NilT THEN Res(Panic(r.w), NilT)
    ELSE Res([r.w EXCEPT !.heap = Append(@,
                [NewType(IF a.len = "nil" THEN "[]" \o r.w.heap[r.t].name
                         ELSE IF a.len = "..." THEN "..." \o r.w.heap[r.t].name
                         ELSE "[" \o a.len \o "]" \o r.w.heap[r.t].name,
                         IF a.len = "nil" THEN "SLICE"
                         ELSE IF a.len = "..." THEN "ELIPS" ELSE "ARRAY",
                         f)
                 EXCEPT !.elem = r.t, !.self = Len(r.w.heap) + 1,
                        !.len = IF a.len \in {"nil", "..."} THEN 0 ELSE Atoi(a.len)])],
             Len(r.w.heap) + 1)

\* File.TypeArray(a)
TypeArray(w, f, a, d) == TypeArrayOf(TypeExpr(w, f, a.elt, d), f, a)

\* TypeMap's Type, key and r being what evaluating the key and the value
\* returned: mp.key.name and mp.elem.name panic on a nil Type
TypeMapOf(key, r, f) ==
    IF r.w.st # "ok" THEN Res(r.w, NilT)
    ELSE IF key = NilT \/ r.t = NilT THEN Res(Panic(r.w), NilT)
    ELSE Res([r.w EXCEPT !.heap = Append(@,
                [NewType("map[" \o r.w.heap[key].name \o "]" \o r.w.heap[r.t].name, "MAP", f)
                 EXCEPT !.key = key, !.elem = r.t, !.self = Len(r.w.heap) + 1])],
             Len(r.w.heap) + 1)

TypeMapValue(rk, f, m, d) == TypeMapOf(rk.t, TypeExpr(rk.w, f, m.value, d), f)

\* File.TypeMap(m)
TypeMap(w, f, m, d) == TypeMapValue(TypeExpr(w, f, m.key, d), f, m, d)

\* File.TypeStruct(s)
TypeStruct(w, f, e) ==
    Res([w EXCEPT !.heap = Append(@, [NewType("", "STRUCT", f) EXCEPT !.self = Len(w.heap) + 1])],
        Len(w.heap) + 1)

\* File.TypeExpr(e)
TypeExpr(w, f, e, d) ==
    IF w.st # "ok" THEN Res(w, NilT)
    ELSE CASE e.k = "BasicLit" -> Res(w, TypeToken(e.tok))
           [] e.k = "ParenExpr" -> TypeExpr(w, f, e.x, d)
           [] e.k = "Ident" -> TypeIdent(w, f, e, d)
           [] e.k = "StarExpr" -> TypePointer(w, f, e, d)
           [] e.k = "UnaryExpr" -> TypeUnary(w, f, e, d)
           [] e.k = "BinaryExpr" -> TypeBinary(w, f, e, d)
           [] e.k = "CallExpr" -> TypeCall(w, f, e, d)
           [] e.k = "FuncLit" -> TypeFunc(w, f, e, d)
           [] e.k = "CompositeLit" ->
                (CASE e.type.k = "Ident" -> TypeIdent(w, f, e.type, d)
                   [] e.type.k = "ArrayType" -> TypeArray(w, f, e.type, d)
                   [] e.type.k = "MapType" -> TypeMap(w, f, e.type, d)
                   [] e.type.k = "StructType" -> TypeStruct(w, f, e.type)
                   [] OTHER -> Res(w, NilT))
           [] OTHER -> Res(w, NilT)

\* -------------------------------------------------- declaration inspector

\* imp.pkg of an import of `path` into package p: the Package p.Imports has
\* for the path, else a new one, added to p.Imports
ImportPackage(w, p, path) ==
    IF DataIndex(w.Imports[p], path) # 0 THEN w
    ELSE [NewPackage(w, path) EXCEPT !.Imports[p] = DataAdd(@, @, path, path)]

\* imp := &Import{file: f, name: i.Name.Name} and f.i.Add(imp)
AddImport(w, f, name, path) ==
    [w EXCEPT !.fileI[f] = DataAdd(@, ImportKeys(w, f),
                                   [file |-> f, name |-> name, pkg |-> path], name)]

\* File.InspectImports(specs), from the i-th spec on: i.Name.Name panics on
\* an import without a name
RECURSIVE InspectImportsFrom(_, _, _, _)
InspectImportsFrom(w, f, specs, i) ==
    IF w.st # "ok" \/ i > Len(specs) THEN w
    ELSE IF ~specs[i].named THEN Panic(w)
    ELSE InspectImportsFrom(ImportPackage(AddImport(w, f, specs[i].name, specs[i].path),
                                          f[1], specs[i].path),
                            f, specs, i + 1)

InspectImports(w, f, specs) == InspectImportsFrom(w, f, specs, 1)

\* File.Inspect's switch on one declaration
InspectDecl(w, f, decl) ==
    CASE decl.tok = "FUNC" -> InspectFunc(w, f, decl)
      [] decl.tok = "CONST" -> InspectValues(w, f, "CONST", decl.specs, 0)
      [] decl.tok = "VAR" -> InspectValues(w, f, "VAR", decl.specs, 0)
      [] decl.tok = "TYPE" -> InspectType(w, f, decl.specs)
      [] decl.tok = "IMPORT" -> InspectImports(w, f, decl.specs)
      [] OTHER -> w

\* File.Inspect(), from the i-th declaration of the file's tree on
RECURSIVE FileInspectFrom(_, _, _, _)
FileInspectFrom(w, f, decls, i) ==
    IF w.st # "ok" \/ i > Len(decls) THEN w
    ELSE FileInspectFrom(InspectDecl(w, f, decls[i]), f, decls, i + 1)

\* File.Inspect(); a rejected file's tree has no declarations
FileInspect(w, f) ==
    IF w.fileT[f] # "" THEN FileInspectFrom(w, f, TreeDecls(w.fileT[f]), 1) ELSE w

\* Inspect's loop over p.Files.List(), from the i-th file on
RECURSIVE InspectFilesFrom(_, _, _)
InspectFilesFrom(w, p, i) ==
    IF w.st # "ok" \/ i > Len(w.Files[p]) THEN w
    ELSE InspectFilesFrom(FileInspect(w, FileRef(p, w.Files[p][i])), p, i + 1)

\* Inspect's return: the world, the error and the *Package ("nil" for nil)
InspectReturn(w, path) ==
    IF w.st # "ok" THEN [w |-> w, pkg |-> "nil", err |-> "nil"]
    ELSE [w |-> [w EXCEPT !.insp[path] = TRUE], pkg |-> path, err |-> "nil"]

\* Inspect after p.Parse() returned r
InspectParsed(r, path) ==
    IF r.err # "nil" THEN [w |-> r.w, pkg |-> "nil", err |-> r.err]
    ELSE InspectReturn(InspectFilesFrom(r.w, path, 1), path)

\* Inspect(PkgPath)
Inspect(w, path) == InspectParsed(Parse(NewPackage(w, path), path), path)

\* ------------------------------------------------------------- the calls

\* the files a client evaluates expressions and inspects specs in
ClientFiles == {FileRef("A", "a1"), FileRef("A", "a2")}

\* the file a client inspects declarations and resolves names in
ClientFile == FileRef("A", "a1")

\* the expressions a client asks the type of in a second file of the package
OtherExprs == {Star(Id("int")), Star(Id("float64")), Unary("&", IdO("x", "Var", 1))}

\* the expressions a client asks the type of
ClientExprs ==
    { Star(Id("int")),
      Star(Id("float64")),
      Unary("&", IdO("x", "Var", 1)),
      Unary("-", Lit("INT")),
      Binary(IdO("x", "Var", 1), Lit("INT")),
      Binary(Id("x"), Lit("INT")),
      Binary(Lit("INT"), Lit("FLOAT")),
      Binary(Paren(Lit("INT")), Lit("FLOAT")),
      Id("true"),
      Id("b.X"),
      IdO("T", "Typ", 0),
      Call(IdO("f", "Fun", 0)),
      Star(Id("zz")),
      Unary("&", Id("zz")),
      Unary("&", Composite(ArrayType("nil", Id("int")))),
      Composite(ArrayType("nil", Id("int"))),
      Composite(ArrayType("3", Id("zz"))),
      Composite(MapType(Id("string"), Id("zz"))),
      Composite(MapType(Id("string"), Id("int"))),
      Composite(StructType),
      Composite(Id("TA")),
      Composite(Selector(Id("b"), "X")),
      Selector(Id("b"), "X"),
      FuncLit(<<Field(<<"m", "n">>, Id("int"))>>, <<Field(<<>>, Id("string"))>>),
      IdO("y", "Var", 5) }

\* the names a client resolves with GetType
ClientNames == {"int", "*int", "TA", "d.Foo", "d.Bar", "b.Foo", "g.X", "z.X"}

\* the declarations a client inspects with InspectValues
ClientSpecs ==
    { <<ObjDecl(1)>>,
      <<ValueSpec(<<"K">>, Id("string"), <<Lit("STRING")>>),
        ValueSpec(<<"L">>, NoExpr, <<Lit("INT")>>),
        ValueSpec(<<"M">>, NoExpr, <<>>)>>,
      <<ObjDecl(2), ObjDecl(3)>>,
      <<ObjDecl(4)>>,
      <<ValueSpec(<<"U">>, Id("zz"), <<Lit("STRING")>>),
        ValueSpec(<<"V">>, NoExpr, <<>>)>>,
      <<ValueSpec(<<"a", "b">>, NoExpr, <<Call(IdO("f", "Fun", 0))>>)>>,
      <<ObjDecl(6)>>,
      <<ObjDecl(7), ObjDecl(8)>>,
      <<ObjDecl(9)>>,
      <<ObjDecl(10)>>,
      <<ObjDecl(11), ObjDecl(12), ObjDecl(13)>> }

\* the declarations a client inspects with InspectValue
ClientValues == {ObjDecl(1), ObjDecl(3), ObjDecl(11), ObjDecl(12)}

Exists(f) == DataIndex(Files[f[1]], f[2]) # 0

Ret(op, pkg, file, arg, t, err) ==
    [op |-> op, pkg |-> pkg, file |-> file, arg |-> arg, t |-> t, err |-> err]

\* the world w becomes the state of the packages
BecomesWorld(w) ==
    /\ heap' = w.heap
    /\ vheap' = w.vheap
    /\ pkgs' = w.pkgs
    /\ Name' = w.Name
    /\ insp' = w.insp
    /\ Files' = w.Files
    /\ Types' = w.Types
    /\ Values' = w.Values
    /\ Funcs' = w.Funcs
    /\ Imports' = w.Imports
    /\ fileT' = w.fileT
    /\ fileI' = w.fileI
    /\ parses' = w.parses
    /\ ptrLog' = w.ptrLog
    /\ st' = w.st
    /\ UNCHANGED apiVars

\* the world after a call of the one caller becomes the state
Becomes(w) ==
    /\ BecomesWorld(w)
    /\ calls' = calls + 1
    /\ ev' = ev

\* a call of a method of file f returns r
Returns(r, op, f, arg) ==
    /\ Becomes(r.w)
    /\ ret' = Ret(op, f[1], f, arg, r.t, r.err)

\* a call of a function or of a method of a Package returns r
ReturnsPkg(r, op, pkg, arg) ==
    /\ Becomes(r.w)
    /\ ret' = Ret(op, pkg, NoFile, arg, NilT, r.err)

\* Inspect returns r
ReturnsInspect(r, path) ==
    /\ Becomes(r.w)
    /\ ret' = Ret("Inspect", r.pkg, NoFile, path, NilT, r.err)

Ready == st = "ok" /\ calls < MaxCalls

DoNewPackage(path) ==
    /\ Ready
    /\ ReturnsPkg(Res(NewPackage(World, path), NilT), "NewPackage", path, path)

DoInspect(path) ==
    /\ Ready
    /\ ReturnsInspect(Inspect(World, path), path)

DoParse(p) ==
    /\ Ready
    /\ p \in pkgs
    /\ ReturnsPkg(Parse(World, p), "Parse", p, p)

DoFileInspect(f) ==
    /\ Ready
    /\ Exists(f)
    /\ Returns(Res(FileInspect(World, f), NilT), "FileInspect", f, "")

DoInspectValues(f, k, specs) ==
    /\ Ready
    /\ Exists(f)
    /\ Returns(Res(InspectValues(World, f, k, specs, 0), NilT), "InspectValues", f, specs)

DoInspectValue(f, k, v) ==
    /\ Ready
    /\ Exists(f)
    /\ Returns(Res(InspectValue(World, f, k, v, 0), NilT), "InspectValue", f, <<v>>)

DoTypeExpr(f, e) ==
    /\ Ready
    /\ Exists(f)
    /\ Returns(TypeExpr(World, f, e, 0), "TypeExpr", f, e)

DoGetType(f, name) ==
    /\ Ready
    /\ Exists(f)
    /\ Returns(GetType(World, f, name), "GetType", f, name)

Next ==
    \/ \E path \in RootPaths : DoNewPackage(path)
    \/ \E path \in RootPaths : DoInspect(path)
    \/ \E p \in PkgPaths : DoParse(p)
    \/ \E f \in FileRefs : DoFileInspect(f)
    \/ \E specs \in ClientSpecs : DoInspectValues(ClientFile, "VAR", specs)
    \/ \E v \in ClientValues : DoInspectValue(ClientFile, "CONST", v)
    \/ \E e \in ClientExprs : DoTypeExpr(ClientFile, e)
    \/ \E f \in ClientFiles \ {ClientFile}, e \in OtherExprs : DoTypeExpr(f, e)
    \/ \E name \in ClientNames : DoGetType(ClientFile, name)

Spec == Init /\ [][Next]_vars

\* ------------------------------------------------- concurrent evaluators

\* typePointer has no lock: between its lookup (Types.Get) and its insertion
\* (Types.Add) another goroutine may run.  Each half is taken as one step,
\* the least interleaving that unsynchronized goroutines allow.

\* the Types the evaluators ask pointers of: int, whose pointer the package
\* has once it is inspected, and float64, whose pointer it has not
EvTypes == {BuiltinTypesGet("int"), BuiltinTypesGet("float64")}

\* the packages are loaded before the evaluators start
EvInspect ==
    /\ st = "ok"
    /\ ~insp["A"]
    /\ ReturnsInspect(Inspect(World, "A"), "A")

\* evaluator e calls f.typePointer(t)
EvCall(e, f, t) ==
    /\ st = "ok"
    /\ insp["A"]
    /\ ev[e].pc = "idle"
    /\ ev[e].n < MaxRequests
    /\ ev' = [ev EXCEPT ![e] = [pc |-> "get", file |-> f, t |-> t, typ |-> NilT,
                                n |-> @.n + 1]]
    /\ UNCHANGED <<worldVars, apiVars, calls, ret>>

\* if t := f.p.Types.Get(n); t != nil { return t.(*Type) }
EvGet(e) ==
    /\ ev[e].pc = "get"
    /\ BecomesWorld(typePointerFind(World, ev[e].file, ev[e].t).w)
    /\ ev' = [ev EXCEPT ![e].typ = typePointerFind(World, ev[e].file, ev[e].t).t,
                        ![e].pc = IF typePointerFind(World, ev[e].file, ev[e].t).t # NilT
                                  THEN "done" ELSE "add"]
    /\ UNCHANGED <<calls, ret>>

\* typ = &Type{...}; f.p.Types.Add(typ)
EvAdd(e) ==
    /\ ev[e].pc = "add"
    /\ BecomesWorld(typePointerMake(World, ev[e].file, ev[e].t).w)
    /\ ev' = [ev EXCEPT ![e].typ = typePointerMake(World, ev[e].file, ev[e].t).t,
                        ![e].pc = "done"]
    /\ UNCHANGED <<calls, ret>>

\* typePointer returns to evaluator e
EvReturn(e) ==
    /\ ev[e].pc = "done"
    /\ ev' = [ev EXCEPT ![e].pc = "idle"]
    /\ ret' = Ret("typePointer", ev[e].file[1], ev[e].file, ev[e].t, ev[e].typ, "nil")
    /\ UNCHANGED <<worldVars, apiVars, calls>>

NextConc ==
    \/ EvInspect
    \/ \E e \in Evaluators, f \in ClientFiles, t \in EvTypes : EvCall(e, f, t)
    \/ \E e \in Evaluators : EvGet(e)
    \/ \E e \in Evaluators : EvAdd(e)
    \/ \E e \in Evaluators : EvReturn(e)

SpecConc == Init /\ [][NextConc]_vars

\* ------------------------------------------------------------ package api

\* A map[string]any that the code only looks keys up in is a record.  A map
\* that the code ranges over is the sequence of its entries <<key, value>> in
\* the order in which the range yields them: the Go runtime chooses that
\* order, so the inputs hold such a map once in each of its orders.

NilApi == 0
\* a Params whose Data is nil
NilParams == [nil |-> TRUE, keys |-> {}]

\* net/url getScheme: the text before the first colon, "" when there is no
\* colon or a slash comes first
UrlScheme(s) ==
    IF IndexFrom(s, ":", 1) = -1 THEN ""
    ELSE IF IndexFrom(s, "/", 1) # -1 /\ IndexFrom(s, "/", 1) < IndexFrom(s, ":", 1) THEN ""
    ELSE SubSeq(s, 1, IndexFrom(s, ":", 1))

\* the host and the path of rest, what follows the scheme: "//host/path" has
\* an authority, anything else is a path
UrlOf(scheme, rest) ==
    IF Len(rest) >= 2 /\ SubSeq(rest, 1, 2) = "//"
    THEN IF IndexFrom(rest, "/", 3) = -1
         THEN [Scheme |-> scheme, Host |-> SubSeq(rest, 3, Len(rest)), Path |-> ""]
         ELSE [Scheme |-> scheme, Host |-> SubSeq(rest, 3, IndexFrom(rest, "/", 3)),
               Path |-> SubSeq(rest, IndexFrom(rest, "/", 3) + 1, Len(rest))]
    ELSE [Scheme |-> scheme, Host |-> "", Path |-> rest]

\* url.Parse(s): a colon in the first place is "missing protocol scheme";
\* otherwise the URL of the scheme and of what follows the scheme's colon
UrlParse(s) ==
    IF IndexFrom(s, ":", 1) = 0 THEN [err |-> TRUE, url |-> UrlOf("", "")]
    ELSE IF UrlScheme(s) = "" THEN [err |-> FALSE, url |-> UrlOf("", s)]
    ELSE [err |-> FALSE,
          url |-> UrlOf(UrlScheme(s), SubSeq(s, Len(UrlScheme(s)) + 2, Len(s)))]

\* the state of package api as one record
ApiWorld == [urls |-> urls, apis |-> apis, resources |-> resources]

\* New(): the new Api is the last of w.apis
New(w) ==
    [w EXCEPT !.apis = Append(@, [Protocol |-> "REST", Auth |-> NilApi, Resources |-> <<>>])]

\* the keys of a.Resources, in order
ResourceKeys(w, a) ==
    [i \in 1..Len(w.apis[a].Resources) |-> w.resources[w.apis[a].Resources[i]].Name]

\* a.Resource(key), 0 for nil
Resource(w, a, key) ==
    IF DataIndex(ResourceKeys(w, a), key) = 0 THEN 0
    ELSE w.apis[a].Resources[DataIndex(ResourceKeys(w, a), key)]

\* NewResource(api, name, url): the new Resource is the last of w.resources;
\* its Url is the pointer it was given
NewResource(w, api, name, url) ==
    [w EXCEPT !.resources = Append(@, [Api |-> api, Name |-> name, Url |-> url,
                                       Methods |-> <<>>])]

\* ParamMap(m): the Params of the entries of m, of which the keys are kept
ParamMap(m) == [nil |-> FALSE, keys |-> {m[i][1] : i \in 1..Len(m)}]

\* RequestMap(m)
RequestMap(m) ==
    [Params |-> IF "params" \in DOMAIN m THEN ParamMap(m.params) ELSE NilParams,
     Header |-> IF "header" \in DOMAIN m THEN ParamMap(m.header) ELSE NilParams,
     Body |-> IF "body" \in DOMAIN m THEN ParamMap(m.body) ELSE NilParams]

\* ResponseMap(m)
ResponseMap(m) ==
    [Header |-> IF "header" \in DOMAIN m THEN ParamMap(m.header) ELSE NilParams,
     Body |-> IF "body" \in DOMAIN m THEN ParamMap(m.body) ELSE NilParams]

\* NewMethod(resource, name) sets no Resource
NewMethod(name) ==
    [Resource |-> 0, Name |-> name, Request |-> RequestMap(<<>>),
     Response |-> ResponseMap(<<>>)]

MethodKeys(w, r) == [i \in 1..Len(w.resources[r].Methods) |-> w.resources[r].Methods[i].Name]

\* r.MethodMap(k, m)
MethodMap(w, r, k, m) ==
    [w EXCEPT !.resources[r].Methods =
        DataAdd(@, MethodKeys(w, r),
                [NewMethod(k) EXCEPT
                    !.Request = IF "request" \in DOMAIN m THEN RequestMap(m.request) ELSE @,
                    !.Response = IF "response" \in DOMAIN m THEN ResponseMap(m.response) ELSE @],
                k)]

\* for k, v := range ms { r.MethodMap(k, v) }, from entry i on
RECURSIVE MethodMaps(_, _, _, _)
MethodMaps(w, r, ms, i) ==
    IF i > Len(ms) THEN w
    ELSE MethodMaps(MethodMap(w, r, ms[i][1], ms[i][2]), r, ms, i + 1)

\* a.Resources.Add(r) and the methods of m, for the Resource r just made
ResourceAdd(w, a, m) ==
    MethodMaps([w EXCEPT !.apis[a].Resources =
                    DataAdd(@, ResourceKeys(w, a), Len(w.resources),
                            w.resources[Len(w.resources)].Name)],
               Len(w.resources), IF "methods" \in DOMAIN m THEN m.methods ELSE <<>>, 1)

\* a.ResourceMap(k, m, u): u.Path = uri writes the URL that u points to
ResourceMap(w, a, k, m, u) ==
    IF "uri" \in DOMAIN m
    THEN ResourceAdd(NewResource([w EXCEPT !.urls[u].Path = m.uri], a, k, u), a, m)
    ELSE w

\* for k, v := range r { api.ResourceMap(k, v, url) }, from entry i on
RECURSIVE ResourceMaps(_, _, _, _, _)
ResourceMaps(w, a, rs, u, i) ==
    IF i > Len(rs) THEN w
    ELSE ResourceMaps(ResourceMap(w, a, rs[i][1], rs[i][2], u), a, rs, u, i + 1)

\* FromMap(m): the world after it and the Api it returns.  The URL that
\* url.Parse made is the last of the urls when New is called, and the one
\* pointer to it is given to every ResourceMap call.
RECURSIVE FromMap(_, _)
\* api.Auth = FromMap(p), for the Api a that New made before
FromMapAuth(r, a) == [w |-> [r.w EXCEPT !.apis[a].Auth = r.api], api |-> a]
FromMapResources(r, m, u) ==
    [w |-> ResourceMaps(r.w, r.api, IF "resources" \in DOMAIN m THEN m.resources ELSE <<>>,
                        u, 1),
     api |-> r.api]
FromMapNew(w, m) ==
    FromMapResources(IF "auth" \in DOMAIN m
                     THEN FromMapAuth(FromMap(New(w), m.auth), Len(w.apis) + 1)
                     ELSE [w |-> New(w), api |-> Len(w.apis) + 1],
                     m, Len(w.urls))
FromMap(w, m) ==
    IF "url" \notin DOMAIN m THEN [w |-> w, api |-> NilApi]
    ELSE IF UrlParse(m.url).err THEN [w |-> w, api |-> NilApi]
    ELSE FromMapNew([w EXCEPT !.urls = Append(@, UrlParse(m.url).url)], m)

\* the maps a client gives to FromMap
Users == <<"users", [uri |-> "/users",
                     methods |-> <<
                         <<"GET", [request |-> [params |-> << <<"id", "int">> >>],
                                   response |-> [body |-> << <<"name", "string">> >>]]>> >>]>>
Items == <<"items", [uri |-> "/items"]>>
ApiMaps ==
    { [resources |-> <<Users>>],
      [url |-> ":h", resources |-> <<Users>>],
      [url |-> "http://h/v1"],
      [url |-> "http://h/v1", resources |-> <<Users>>],
      [url |-> "http://h/v1", resources |-> <<Users, Items>>],
      [url |-> "http://h/v1", resources |-> <<Items, Users>>],
      [url |-> "http://h/v1",
       auth |-> [url |-> "http://auth", resources |-> << <<"token", [uri |-> "/token"]>> >>],
       resources |-> << <<"nouri", [methods |-> << <<"GET", <<>> >> >>]>>, Items >>] }

\* the resources a client gives to ResourceMap
ResourceMapArgs ==
    {[uri |-> "/users"], [uri |-> "/items"], [methods |-> << <<"GET", <<>> >> >>]}

\* the *url.URL a client has: the Url of a Resource
ClientUrls == {resources[r].Url : r \in 1..Len(resources)}

BecomesApi(w) ==
    /\ urls' = w.urls
    /\ apis' = w.apis
    /\ resources' = w.resources
    /\ calls' = calls + 1
    /\ UNCHANGED <<worldVars, ev>>

DoNew ==
    /\ Ready
    /\ BecomesApi(New(ApiWorld))
    /\ ret' = Ret("New", "api", NoFile, "", Len(apis) + 1, "nil")

DoFromMap(m) ==
    /\ Ready
    /\ BecomesApi(FromMap(ApiWorld, m).w)
    /\ ret' = Ret("FromMap", "api", NoFile, m, FromMap(ApiWorld, m).api, "nil")

DoResourceMap(a, k, m, u) ==
    /\ Ready
    /\ BecomesApi(ResourceMap(ApiWorld, a, k, m, u))
    /\ ret' = Ret("ResourceMap", "api", NoFile, <<k, m, u>>, a, "nil")

NextApi ==
    \/ DoNew
    \/ \E m \in ApiMaps : DoFromMap(m)
    \/ \E a \in 1..Len(apis), k \in {"users", "items"}, m \in ResourceMapArgs,
             u \in ClientUrls :
          DoResourceMap(a, k, m, u)

SpecApi == Init /\ [][NextApi]_vars

\* --------------------------------------------------------------- claims

\* the Type of the Value of a name in a package, NilT when it has none
TypOf(p, name) == IF ValuesGet(World, p, name) = 0 THEN NilT
                  ELSE vheap[ValuesGet(World, p, name)].typ

TypOfNext(p, name) == IF ValuesGet(World', p, name) = 0 THEN NilT
                      ELSE vheap'[ValuesGet(World', p, name)].typ

Present(p, name) == ValuesGet(World, p, name) # 0

AllNames(specs) == UNION {{specs[i].names[j] : j \in 1..Len(specs[i].names)} : i \in 1..Len(specs)}

\* C1: pointer type identity.  Of the calls of typePointer made in the files
\* of one package, any two for the same Type returned the same instance; the
\* first call for a pointer name made the instance and every later one found
\* it; the instance is a POINTER registered in the package's Types under
\* "*" + T.name; and Types holds no name twice.
C1_PointerIdentity ==
    /\ \A i, j \in 1..Len(ptrLog) :
          (ptrLog[i].file[1] = ptrLog[j].file[1] /\ ptrLog[i].elem = ptrLog[j].elem)
             => ptrLog[i].typ = ptrLog[j].typ
    /\ \A j \in 1..Len(ptrLog) :
          ptrLog[j].made <=>
             ~\E i \in 1..(j - 1) : /\ ptrLog[i].file[1] = ptrLog[j].file[1]
                                    /\ heap[ptrLog[i].elem].name = heap[ptrLog[j].elem].name
    /\ \A i \in 1..Len(ptrLog) :
          /\ heap[ptrLog[i].typ].kind = "POINTER"
          /\ heap[ptrLog[i].typ].name = "*" \o heap[ptrLog[i].elem].name
          /\ TypesGet(World, ptrLog[i].file[1], "*" \o heap[ptrLog[i].elem].name) = ptrLog[i].typ
    /\ \A p \in PkgPaths : \A i, j \in 1..Len(Types[p]) :
          heap[Types[p][i]].name = heap[Types[p][j]].name => i = j

\* two calls of typePointer for the same Type from two files of a package
C1_Witness ==
    \E i, j \in 1..Len(ptrLog) :
        /\ i < j
        /\ ptrLog[i].file # ptrLog[j].file
        /\ ptrLog[i].file[1] = ptrLog[j].file[1]
        /\ ptrLog[i].elem = ptrLog[j].elem
        /\ ptrLog[i].made

\* C2: idempotent inspection.  A call of InspectValues or InspectValue with
\* specs all of whose names are in the package's Values adds no Value and
\* changes no Value, and so does File.Inspect on a file of a package that
\* Inspect has inspected.
C2_IdempotentInspection ==
    [][ /\ (/\ ret'.op \in {"InspectValues", "InspectValue"}
            /\ \A n \in AllNames(ret'.arg) : Present(ret'.pkg, n))
           => (Values' = Values /\ vheap' = vheap /\ st' = "ok")
        /\ (ret'.op = "FileInspect" /\ insp[ret'.pkg] /\ st' = "ok")
           => (Values' = Values /\ vheap' = vheap) ]_vars

\* a file with Values is inspected a second time
C2_Witness ==
    /\ ret.op = "FileInspect"
    /\ insp[ret.pkg]
    /\ st = "ok"
    /\ \E i \in 1..Len(Values[ret.pkg]) : vheap[Values[ret.pkg][i]].file = ret.file

\* the blocks of the claim's shape: the first spec has a type, a name, the
\* later ones have none, every spec has one name and at most a literal as
\* value
TypedFirst(specs) ==
    /\ Len(specs) > 1
    /\ specs[1].type.k = "Ident"
    /\ \A i \in 2..Len(specs) : specs[i].type = NoExpr
    /\ \A i \in 1..Len(specs) :
          /\ Len(specs[i].names) = 1
          /\ Len(specs[i].values) <= 1
          /\ \A j \in 1..Len(specs[i].values) : specs[i].values[j].k = "BasicLit"

\* a call of InspectValues on such a block, none of whose names was present
\* and the type of whose first entry is one the file resolves
InspectsTypedFirst ==
    /\ ret'.op = "InspectValues"
    /\ st' = "ok"
    /\ TypedFirst(ret'.arg)
    /\ GetType(World, ret'.file, ret'.arg[1].type.name).t # NilT
    /\ \A n \in AllNames(ret'.arg) : ~Present(ret'.pkg, n)

FuncResults(p, name) ==
    UNION {{TreeDecls(FSFiles(p)[i])[j].specs[1].results :
               j \in {j \in 1..Len(TreeDecls(FSFiles(p)[i])) :
                         /\ TreeDecls(FSFiles(p)[i])[j].tok = "FUNC"
                         /\ TreeDecls(FSFiles(p)[i])[j].specs[1].name = name}} :
           i \in 1..Len(FSFiles(p))}

CallSpecs(p) ==
    UNION {UNION {{TreeDecls(FSFiles(p)[i])[j].specs[k] :
                      k \in {k \in 1..Len(TreeDecls(FSFiles(p)[i])[j].specs) :
                                LET s == TreeDecls(FSFiles(p)[i])[j].specs[k]
                                IN  /\ Len(s.names) > 1
                                    /\ s.type = NoExpr
                                    /\ Len(s.values) = 1
                                    /\ s.values[1].k = "CallExpr"
                                    /\ s.values[1].fun.k = "Ident"}} :
                  j \in {j \in 1..Len(TreeDecls(FSFiles(p)[i])) :
                            TreeDecls(FSFiles(p)[i])[j].tok \in {"VAR", "CONST"}}} :
           i \in 1..Len(FSFiles(p))}

\* C4 as stated: once Inspect has inspected a package, the i-th name of
\* a, b = f() has the Type of the i-th result f declares.
C4_Original ==
    \A p \in RootPaths : insp[p] =>
        \A s \in CallSpecs(p) : \A rs \in FuncResults(p, s.values[1].fun.name) :
            \A i \in 1..Len(s.names) :
                i <= Len(rs) => TypOf(p, s.names[i]) = BuiltinTypesGet(rs[i].name)

\* C5 as stated: the Type of x + 1 is the declared Type of x, a variable of
\* a file that Package.Parse loaded, both where Inspect meets the expression
\* (var y = x + 1) and where a client evaluates it; the Type of 1 + 2.0 is
\* the Type of the right literal.
C5_Original ==
    /\ insp["A"] => (TypOf("A", "x") = BuiltinTypesGet("float64")
                      /\ TypOf("A", "y") = TypOf("A", "x"))
    /\ (/\ ret.op = "TypeExpr"
        /\ st = "ok"
        /\ insp["A"]
        /\ ret.arg = Binary(Id("x"), Lit("INT"))) => ret.t = TypOf("A", "x")
    /\ (/\ ret.op = "TypeExpr"
        /\ st = "ok"
        /\ ret.arg = Binary(Lit("INT"), Lit("FLOAT"))) => ret.t = TypeToken("FLOAT")

\* C6 as stated: GetType of d.Foo, d being an import of the file, returns
\* the Type Foo of the imported package, each of whose files was parsed once.
C6_Original ==
    (/\ ret.op = "GetType"
     /\ st = "ok"
     /\ ret.arg = "d.Foo"
     /\ DataIndex(ImportKeys(World, ret.file), "d") # 0)
    => /\ ret.t # NilT
       /\ ret.err = "nil"
       /\ \A i \in 1..Len(FSFiles("\"D\"")) : parses[FSFiles("\"D\"")[i]] = 1

\* C7 as stated: once Inspect has returned a package that is part of an
\* import cycle, the package's Types holds every type name its files declare.
C7_Original ==
    (/\ ret.op = "Inspect"
     /\ st = "ok"
     /\ ret.pkg \in {"A", "B"})
    => \A i \in 1..Len(Files[ret.pkg]) :
          \A n \in DeclaredTypes(fileT[FileRef(ret.pkg, Files[ret.pkg][i])]) :
              TypesGet(World, ret.pkg, n) # NilT

\* GetType was called with a name that has a period
GetTypeQualified(r) == r.op = "GetType" /\ Len(Split(r.arg, ".")) > 1

C9_Original ==
    (ret.op \in {"Parse", "Inspect"} /\ ret.err = "ParseError")
    => /\ Files[ret.arg] = <<>>
       /\ ret.op = "Inspect" => ret.pkg = "nil"

\* C10 as stated: TypeExpr returns, on every expression, without a panic.
C10_Original == ret.op = "TypeExpr" => st = "ok"

\* two Types with one shape: kind, name, element, key, length and package
SameShape(a, b) ==
    /\ a.kind = b.kind
    /\ a.name = b.name
    /\ a.elem = b.elem
    /\ a.key = b.key
    /\ a.len = b.len
    /\ a.file[1] = b.file[1]

\* C11 as stated: the Type that TypeExpr returns for a slice, array or map
\* literal is registered in the package's Types under its name, and it is
\* the instance made before for the same shape in the package, if any.
C11_Original ==
    [][ (/\ ret'.op = "TypeExpr"
         /\ st' = "ok"
         /\ ret'.arg.k = "CompositeLit"
         /\ ret'.arg.type.k \in {"ArrayType", "MapType"}
         /\ ret'.t # NilT)
        => /\ TypesGet(World', ret'.pkg, heap'[ret'.t].name) = ret'.t
           /\ \A i \in 1..Len(heap) :
                 (/\ heap[i].kind \in {"SLICE", "ARRAY", "ELIPS", "MAP"}
                  /\ SameShape(heap[i], heap'[ret'.t])) => ret'.t = i
      ]_vars

\* the last segment of an import path as the import spec writes it, a
\* literal in quotes
PathBase(lit) ==
    SubSeq(SubSeq(lit, 2, Len(lit) - 1),
           LastIndex(SubSeq(lit, 2, Len(lit) - 1), "/") + 2, Len(lit) - 2)

\* the name an import is to be bound under: its alias, else the last segment
BindingName(spec) == IF spec.named THEN spec.name ELSE PathBase(spec.path)

\* the import specs of a file
ImportSpecs(file) ==
    UNION {{TreeDecls(file)[j].specs[k] : k \in 1..Len(TreeDecls(file)[j].specs)} :
              j \in {j \in 1..Len(TreeDecls(file)) : TreeDecls(file)[j].tok = "IMPORT"}}

\* C12 as stated: Inspect of a package whose files parse returns without a
\* panic, and every import spec of every file has an Import in the file's
\* table under its alias or, without one, the last segment of its path.
C12_Original ==
    (ret.op = "Inspect" /\ ret.err = "nil")
    => /\ st = "ok"
       /\ \A i \in 1..Len(Files[ret.arg]) :
             \A s \in ImportSpecs(fileT[FileRef(ret.arg, Files[ret.arg][i])]) :
                 DataIndex(ImportKeys(World, FileRef(ret.arg, Files[ret.arg][i])),
                           BindingName(s)) # 0

\* C13 as stated: when TypeExpr meets an identifier bound to the declaration
\* of a variable that is stored with a nil Type, and the declaration's
\* initializer now evaluates to a Type, the Value has a Type afterwards.
C13_Original ==
    [][ (/\ ret'.op = "TypeExpr"
         /\ st' = "ok"
         /\ ret'.arg.k = "Ident"
         /\ ret'.arg.obj.kind = "Var"
         /\ Present(ret'.pkg, ret'.arg.name)
         /\ TypOf(ret'.pkg, ret'.arg.name) = NilT
         /\ Len(ObjDecl(ret'.arg.obj.decl).values) = 1
         /\ TypeExpr(World, ret'.file, ObjDecl(ret'.arg.obj.decl).values[1], 0).t # NilT)
        => TypOfNext(ret'.pkg, ret'.arg.name) # NilT
      ]_vars

\* C15 as stated: when Parse returns no error, every file of the package's
\* path is in Files with the tree of a file the parser accepted, and no
\* file was ever parsed more than once.
C15_Original ==
    /\ (ret.op = "Parse" /\ ret.err = "nil")
       => \A i \in 1..Len(FSFiles(ret.arg)) :
             /\ DataIndex(Files[ret.arg], FileName(FSFiles(ret.arg)[i])) # 0
             /\ fileT[FileRef(ret.arg, FileName(FSFiles(ret.arg)[i]))] = FSFiles(ret.arg)[i]
             /\ FSFiles(ret.arg)[i] \notin BadFiles
    /\ \A f \in AllFiles : parses[f] <= 1

\* declarations whose initializers refer to the names they declare:
\* const ca = ca; var va = vb and var vb = va; var fa, fb = fa()
CyclicSpecs == {<<ObjDecl(6)>>, <<ObjDecl(7), ObjDecl(8)>>, <<ObjDecl(9)>>}

\* C16 as stated: InspectValues on declarations that refer to themselves or
\* to each other returns, and the names are stored with a nil Type.
C16_Original ==
    (ret.op = "InspectValues" /\ ret.arg \in CyclicSpecs)
    => /\ st = "ok"
       /\ \A n \in AllNames(ret.arg) : Present(ret.pkg, n) /\ TypOf(ret.pkg, n) = NilT

\* the Types a field list declares: the Type of each field once per name,
\* once for a field without names
RECURSIVE FieldTypes(_, _)
FieldTypes(fields, i) ==
    IF i > Len(fields) THEN <<>>
    ELSE [j \in 1..(IF Len(fields[i].names) = 0 THEN 1 ELSE Len(fields[i].names)) |->
             BuiltinTypesGet(fields[i].type.name)] \o FieldTypes(fields, i + 1)

\* C17 as stated: TypeExpr of a function literal returns a FUNC Type whose
\* inputs and outputs are the Types of the declared parameters and results,
\* named or not, in order.
C17_Original ==
    (ret.op = "TypeExpr" /\ st = "ok" /\ ret.arg.k = "FuncLit")
    => /\ ret.t # NilT
       /\ heap[ret.t].kind = "FUNC"
       /\ heap[ret.t].ins = FieldTypes(ret.arg.params, 1)
       /\ heap[ret.t].outs = FieldTypes(ret.arg.results, 1)

\* C18 as stated: the POINTER Type that a call of typePointer returned has
\* the Type the call was made for as its element, and itself as its typ.
C18_Original ==
    \A i \in 1..Len(ptrLog) :
        /\ heap[ptrLog[i].typ].elem = ptrLog[i].elem
        /\ heap[ptrLog[i].typ].self = ptrLog[i].typ

\* C19 as stated: once P, Q and R of const ( P int = iota; Q; R ) are all
\* stored, whatever calls stored them and in whatever order, they have the
\* Types that inspecting the whole block first gives them: int.
C19_Original ==
    (\A n \in {"P", "Q", "R"} : Present("A", n))
    => \A n \in {"P", "Q", "R"} : TypOf("A", n) = BuiltinTypesGet("int")

\* C20 as stated: no name of a package was added to Values more than once,
\* that is, no two Values were made for one name in one package.
C20_Original ==
    \A i, j \in 1..Len(vheap) :
        (vheap[i].name = vheap[j].name /\ vheap[i].file[1] = vheap[j].file[1]) => i = j

\* C14 as stated: of the calls of typePointer that concurrent evaluators
\* make, any two for the same Type in one package return the same instance,
\* and at most one of the calls for a pointer name makes an instance.
C14_Original ==
    /\ \A i, j \in 1..Len(ptrLog) :
          (ptrLog[i].file[1] = ptrLog[j].file[1] /\ ptrLog[i].elem = ptrLog[j].elem)
             => ptrLog[i].typ = ptrLog[j].typ
    /\ \A i, j \in 1..Len(ptrLog) :
          (/\ ptrLog[i].made
           /\ ptrLog[j].made
           /\ ptrLog[i].file[1] = ptrLog[j].file[1]
           /\ heap[ptrLog[i].elem].name = heap[ptrLog[j].elem].name) => i = j

\* the entries of the resources of the map m that have a uri
UriEntries(m) ==
    IF "resources" \in DOMAIN m
    THEN {m.resources[i] : i \in {j \in 1..Len(m.resources) : "uri" \in DOMAIN m.resources[j][2]}}
    ELSE {}

\* C21 as stated: after FromMap has built an Api from a map, the Url of the
\* Resource of each entry has the Path that is the entry's own uri; and a
\* ResourceMap call leaves the URL of every Resource that was there before
\* it as it was.
C21_Original ==
    [][/\ (ret'.op = "FromMap" /\ ret'.t # NilApi)
            => \A e \in UriEntries(ret'.arg) :
                  urls'[resources'[Resource(ApiWorld', ret'.t, e[1])].Url].Path = e[2].uri
       /\ ret'.op = "ResourceMap"
            => \A r \in 1..Len(resources) : urls'[resources'[r].Url] = urls[resources[r].Url]
      ]_vars
====
